---- MODULE Spec2Model ----
(***************************************************************************)
(* Model of mvsep.py: the chunked inference pipeline (overlap-add with     *)
(* cross-fade and clipping), the chunk normalisation, the dataset          *)
(* segmenter, the training loop with checkpointing, and main()'s dispatch. *)
(*                                                                         *)
(* Audio is stereo in the source; every operation modelled here is applied *)
(* identically to both channels (the slices are [:, a:b]), so one channel  *)
(* is modelled.  Floating-point numbers are modelled as exact rationals.  *)
(***************************************************************************)
EXTENDS Integers, Sequences, FiniteSets, TLC

VARIABLES
    \* ---- inference() ----
    total_length,       \* input_audio.shape[1]
    chunk_size,         \* parameter chunk_size
    overlap,            \* parameter overlap
    num_chunks,         \* the progress bar's total
    cross_fade_length,  \* overlap // 2
    i,                  \* loop variable: start of the chunk last processed (-1: none yet)
    pbar,               \* number of pbar.update(1) calls = chunks processed
    instrumentals,      \* output buffer, index 0..total_length-1, linear forms
    inst_chunk,         \* the last chunk's waveform after the in-place fade-in
    amp,                \* numeric amplitudes of the reconstructions (even, odd chunks)
    output,             \* the clipped waveform handed to torchaudio.save
    ipc,                \* position in inference(): "loop", "clip", "saved", "idle"
    \* ---- chunk normalisation inside inference() ----
    chunk_mag, chunk_mag_mean, chunk_mag_std, pred_mag,
    chunk_mag_normalized, inst_mag,
    npc,                \* "start", "normalized", "inferred", "denormalized", "idle"
    \* ---- MUSDBDataset.__getitem__ ----
    segment,            \* self.segment
    segment_length,     \* self.segment_length
    hop_length,         \* self.hop_length
    frames,             \* T: time frames of the spectrograms before segmenting
    mixture_spec,       \* sequence of frame ids (0 = padding)
    vocals_spec,
    start,              \* the random window start (-1: none drawn)
    dpc,                \* "call", "returned", "raised", "idle"
    \* ---- main() and train() ----
    args,               \* the parsed command line
    step, avg_loss, loss_log,
    scheduler,          \* CosineAnnealingLR.last_epoch: completed scheduler steps
    remaining,          \* batches left in this run (epochs * len(dataloader))
    saved,              \* step of the checkpoint written by the last batch, or 0
    run_losses,         \* the losses of the batches executed in this run, in order
    base_log,           \* the loss_log the run started from
    files,              \* checkpoint files on disk: step -> checkpoint record
    loss_log_file,      \* contents of loss_log.pt (<<"none">> if absent)
    inference_called,   \* main() has called inference()
    message,            \* the user-facing message printed by main(), or "none"
    runs,               \* program invocations so far
    mpc                 \* "idle", "training", "inference", "exited", "raised"

inferenceVars == <<total_length, chunk_size, overlap, num_chunks, cross_fade_length,
                   i, pbar, instrumentals, inst_chunk, amp, output, ipc>>
normVars == <<chunk_mag, chunk_mag_mean, chunk_mag_std, pred_mag,
              chunk_mag_normalized, inst_mag, npc>>
dataVars == <<segment, segment_length, hop_length, frames, mixture_spec,
              vocals_spec, start, dpc>>
trainVars == <<args, step, avg_loss, loss_log, scheduler, remaining, saved,
               run_losses, base_log, files, loss_log_file, inference_called,
               message, runs, mpc>>
vars == <<inferenceVars, normVars, dataVars, trainVars>>

(***************************************************************************)
(* Bounds of the model.                                                    *)
(***************************************************************************)
MaxChunk == 9
MaxLen == 12
MaxMag == 3
MaxMean == 2
MaxStd == 2
MaxSegment == 6
MaxHop == 3
MaxFrames == 6
MaxEpochs == 2
MaxBatches == 1
MaxCheckpointSteps == 2
MaxRuns == 2

(***************************************************************************)
(* Exact rational arithmetic: a rational is <<n, d>> with d > 0 in lowest  *)
(* terms.                                                                  *)
(***************************************************************************)
Abs(x) == IF x < 0 THEN -x ELSE x

RECURSIVE GCD(_, _)
GCD(a, b) == IF b = 0 THEN a ELSE GCD(b, a % b)

RNorm(n, d) ==
    LET s == IF d < 0 THEN -1 ELSE 1
        g == GCD(Abs(n), Abs(d))
    IN  IF n = 0 THEN <<0, 1>> ELSE <<(s * n) \div g, (s * d) \div g>>

R(n) == <<n, 1>>
RZero == <<0, 1>>
ROne == <<1, 1>>
RAdd(x, y) == RNorm(x[1] * y[2] + y[1] * x[2], x[2] * y[2])
RSub(x, y) == RNorm(x[1] * y[2] - y[1] * x[2], x[2] * y[2])
RMul(x, y) == RNorm(x[1] * y[1], x[2] * y[2])
RDiv(x, y) == RNorm(x[1] * y[2], x[2] * y[1])
RLe(x, y) == x[1] * y[2] <= y[1] * x[2]

(***************************************************************************)
(* Linear forms.  The waveform istft returns for a chunk is the output of  *)
(* the network and is opaque here: sample k of the reconstruction of the   *)
(* c-th chunk is the symbol <<c, k>>.  The overlap-add only scales, adds   *)
(* and copies samples, so every buffer cell is a linear form: a set of     *)
(* terms <<c, k, w>> with w a non-zero rational, one per symbol.  The      *)
(* empty form is the value 0 of torch.zeros_like.                          *)
(***************************************************************************)
Zero == {}
Sym(c, k) == {<<c, k, ROne>>}
Keys(f) == {<<t[1], t[2]>> : t \in f}
Coef(f, c, k) ==
    IF \E t \in f : t[1] = c /\ t[2] = k
    THEN (CHOOSE t \in f : t[1] = c /\ t[2] = k)[3]
    ELSE RZero
Scale(f, r) == {<<t[1], t[2], RMul(t[3], r)>> : t \in {u \in f : RMul(u[3], r) # RZero}}
Plus(f, g) ==
    {<<s[1], s[2], RAdd(Coef(f, s[1], s[2]), Coef(g, s[1], s[2]))>> :
        s \in {u \in Keys(f) \cup Keys(g) :
                 RAdd(Coef(f, u[1], u[2]), Coef(g, u[1], u[2])) # RZero}}

(***************************************************************************)
(* Values the other components hold while one component is exercised.      *)
(***************************************************************************)
NoArgs == [train |-> FALSE, infer |-> FALSE, input_wav |-> 0, checkpoint_path |-> 0,
           epochs |-> 0, checkpoint_steps |-> 1, batches |-> 0]
NoFile == <<"none">>

InferenceIdle ==
    /\ total_length = 0 /\ chunk_size = 1 /\ overlap = 0 /\ num_chunks = 0
    /\ cross_fade_length = 0 /\ i = -1 /\ pbar = 0
    /\ instrumentals = <<>> /\ inst_chunk = <<>>
    /\ amp = <<RZero, RZero>> /\ output = <<>> /\ ipc = "idle"
NormIdle ==
    /\ chunk_mag = RZero /\ chunk_mag_mean = RZero /\ chunk_mag_std = RZero
    /\ pred_mag = RZero /\ chunk_mag_normalized = RZero /\ inst_mag = RZero
    /\ npc = "idle"
DataIdle ==
    /\ segment = FALSE /\ segment_length = 0 /\ hop_length = 1 /\ frames = 0
    /\ mixture_spec = <<>> /\ vocals_spec = <<>> /\ start = -1 /\ dpc = "idle"
TrainIdle ==
    /\ args = NoArgs /\ step = 0 /\ avg_loss = Zero /\ loss_log = <<>>
    /\ scheduler = 0 /\ remaining = 0 /\ saved = 0 /\ run_losses = <<>>
    /\ base_log = <<>> /\ files = <<>> /\ loss_log_file = NoFile
    /\ inference_called = FALSE /\ message = "none" /\ runs = 0 /\ mpc = "idle"

(***************************************************************************)
(* inference(): chunking, overlap-add with cross-fade, clipping.           *)
(***************************************************************************)
\* torch.linspace(a, b, n): n evenly spaced points from a to b inclusive;
\* a single point is a.
Linspace(a, b, n) ==
    [k \in 0 .. n - 1 |->
        IF n = 1 THEN R(a) ELSE RAdd(R(a), RNorm(k * (b - a), n - 1))]

FadeInMirrored(n) == Linspace(1, 0, n)
FadeIn(n) == Linspace(0, 1, n)
FadeOut(n) == Linspace(1, 0, n)

\* num_chunks = (total_length - overlap) // (chunk_size - overlap); Python's //
\* and \div both round towards minus infinity.
NumChunks(T, C, O) == (T - O) \div (C - O)

\* range(0, total_length - chunk_size + 1, chunk_size - overlap)
Stride == chunk_size - overlap
RangeStop == total_length - chunk_size + 1
InRangePartial(x) == x < total_length
InRange(x) == x < RangeStop
NextStart == pbar * Stride

\* inst_chunk as istft returns it (length = chunk_size) for the c-th chunk
Istft(c) == [k \in 0 .. chunk_size - 1 |-> Sym(c, k)]

\* Lines 277-291 applied to buffer buf for the chunk starting at s whose
\* reconstruction is rec; returns <<buffer, inst_chunk>> after the iteration.
OverlapAdd(buf, rec, s) ==
    LET L == cross_fade_length
        fade_in == FadeIn(L)
        fade_out == FadeOut(L)
        \* inst_chunk[:, :cross_fade_length] *= fade_in        (only if i > 0)
        faded == [k \in DOMAIN rec |->
                    IF s > 0 /\ k < L THEN Scale(rec[k], fade_in[k]) ELSE rec[k]]
        \* instrumentals[:, i:i + cross_fade_length] *= fade_out, then += inst_chunk[:, :L]
        crossed == [x \in DOMAIN buf |->
                    IF s > 0 /\ s <= x /\ x < s + L
                    THEN Plus(Scale(buf[x], fade_out[x - s]), faded[x - s])
                    ELSE buf[x]]
        \* instrumentals[:, i + cross_fade_length:i + chunk_size] = inst_chunk[:, L:]
        placed == [x \in DOMAIN buf |->
                    IF s + L <= x /\ x < s + chunk_size THEN faded[x - s]
                    ELSE crossed[x]]
    IN  <<placed, faded>>

\* torch.clamp(x, -1.0, 1.0) on one sample
ClampLowOnly(x) == IF RLe(x, R(-1)) THEN R(-1) ELSE x
Clamp(x) == IF RLe(x, R(-1)) THEN R(-1) ELSE IF RLe(R(1), x) THEN R(1) ELSE x

\* Numeric value of a linear form when every reconstruction sample of an even
\* chunk has amplitude a[1] and of an odd chunk a[2].
RECURSIVE Eval(_, _)
Eval(f, a) ==
    IF f = {} THEN RZero
    ELSE LET t == CHOOSE u \in f : TRUE
         IN  RAdd(RMul(t[3], a[(t[1] % 2) + 1]), Eval(f \ {t}, a))

\* Amplitudes tried for the reconstructions: below, inside and above [-1, 1].
Amps == {<<-3, 1>>, <<-1, 2>>, <<3, 4>>, <<2, 1>>}

InitInference ==
    /\ chunk_size \in 1 .. MaxChunk
    /\ overlap \in 0 .. chunk_size - 1
    /\ total_length \in 0 .. MaxLen
    /\ num_chunks = NumChunks(total_length, chunk_size, overlap)
    /\ instrumentals = [x \in 0 .. total_length - 1 |-> Zero]
    /\ cross_fade_length = overlap \div 2
    /\ i = -1 /\ pbar = 0 /\ inst_chunk = <<>>
    /\ amp = <<RZero, RZero>> /\ output = <<>>
    /\ ipc = "loop"
    /\ NormIdle /\ DataIdle /\ TrainIdle

\* One iteration of the for loop (lines 241-293).
ProcessChunk ==
    /\ ipc = "loop"
    /\ InRange(NextStart)
    /\ LET res == OverlapAdd(instrumentals, Istft(pbar), NextStart)
       IN  /\ instrumentals' = res[1]
           /\ inst_chunk' = res[2]
    /\ i' = NextStart
    /\ pbar' = pbar + 1
    /\ UNCHANGED <<total_length, chunk_size, overlap, num_chunks, cross_fade_length,
                   amp, output, ipc>>
    /\ UNCHANGED <<normVars, dataVars, trainVars>>

\* The range is exhausted.
LoopExit ==
    /\ ipc = "loop"
    /\ ~InRange(NextStart)
    /\ ipc' = "clip"
    /\ UNCHANGED <<total_length, chunk_size, overlap, num_chunks, cross_fade_length,
                   i, pbar, instrumentals, inst_chunk, amp, output>>
    /\ UNCHANGED <<normVars, dataVars, trainVars>>

\* Lines 296-299: clamp the assembled buffer and save it.
ClipAndSave ==
    /\ ipc = "clip"
    /\ \E a \in Amps, b \in Amps :
          /\ amp' = <<a, b>>
          /\ output' = [x \in DOMAIN instrumentals |->
                           Clamp(Eval(instrumentals[x], <<a, b>>))]
    /\ ipc' = "saved"
    /\ UNCHANGED <<total_length, chunk_size, overlap, num_chunks, cross_fade_length,
                   i, pbar, instrumentals, inst_chunk>>
    /\ UNCHANGED <<normVars, dataVars, trainVars>>

NextInference == ProcessChunk \/ LoopExit \/ ClipAndSave
SpecInference == InitInference /\ [][NextInference]_vars

(***************************************************************************)
(* Chunk normalisation in inference() (lines 249-268), on one magnitude    *)
(* value of the chunk with the chunk's statistics.                         *)
(***************************************************************************)
EpsDen == 100000000
Eps == <<1, EpsDen>>            \* 1e-8

\* chunk_mag_normalized = (chunk_mag - chunk_mag_mean) / (chunk_mag_std + 1e-8)
Normalize(m, mean, std) == RDiv(RSub(m, mean), RAdd(std, Eps))
\* inst_mag = inst_mag * chunk_mag_std + chunk_mag_mean
Denormalize(x, mean, std) == RAdd(RMul(x, std), mean)

\* Predicted (normalised) vocal magnitudes tried for the network's output.
Preds == {RZero, ROne}

InitNormalize ==
    /\ chunk_mag \in {R(m) : m \in 0 .. MaxMag}
    /\ chunk_mag_mean \in {R(m) : m \in 0 .. MaxMean}
    /\ chunk_mag_std \in {R(m) : m \in 0 .. MaxStd}
    \* a chunk of zero deviation has every magnitude equal to its mean
    /\ chunk_mag_std = RZero => chunk_mag = chunk_mag_mean
    /\ pred_mag = RZero /\ chunk_mag_normalized = RZero /\ inst_mag = RZero
    /\ npc = "start"
    /\ InferenceIdle /\ DataIdle /\ TrainIdle

NormalizeChunk ==
    /\ npc = "start"
    /\ chunk_mag_normalized' = Normalize(chunk_mag, chunk_mag_mean, chunk_mag_std)
    /\ npc' = "normalized"
    /\ UNCHANGED <<chunk_mag, chunk_mag_mean, chunk_mag_std, pred_mag, inst_mag>>
    /\ UNCHANGED <<inferenceVars, dataVars, trainVars>>

\* pred_mag, pred_phase = model(...); inst_mag = chunk_mag_normalized - pred_mag
RunModel ==
    /\ npc = "normalized"
    /\ \E p \in Preds :
          /\ pred_mag' = p
          /\ inst_mag' = RSub(chunk_mag_normalized, p)
    /\ npc' = "inferred"
    /\ UNCHANGED <<chunk_mag, chunk_mag_mean, chunk_mag_std, chunk_mag_normalized>>
    /\ UNCHANGED <<inferenceVars, dataVars, trainVars>>

DenormalizeChunk ==
    /\ npc = "inferred"
    /\ inst_mag' = Denormalize(inst_mag, chunk_mag_mean, chunk_mag_std)
    /\ npc' = "denormalized"
    /\ UNCHANGED <<chunk_mag, chunk_mag_mean, chunk_mag_std, pred_mag,
                   chunk_mag_normalized>>
    /\ UNCHANGED <<inferenceVars, dataVars, trainVars>>

NextNormalize == NormalizeChunk \/ RunModel \/ DenormalizeChunk
SpecNormalize == InitNormalize /\ [][NextNormalize]_vars

(***************************************************************************)
(* MUSDBDataset.__getitem__, lines 139-149: the segmenter.  A spectrogram  *)
(* is the sequence of its time frames; frame t of the mixture is t, of the *)
(* vocals -t, and a padded frame is 0.                                     *)
(***************************************************************************)
SegFrames == segment_length \div hop_length

\* F.pad(spec, (0, n)): n zero frames appended on the trailing edge
Pad(spec, n) == spec \o [t \in 1 .. n |-> 0]
\* spec[:, :, st:st + n]
Window(spec, st, n) == SubSeq(spec, st + 1, st + n)

InitDataset ==
    /\ segment \in BOOLEAN
    /\ segment_length \in 0 .. MaxSegment
    /\ hop_length \in 1 .. MaxHop
    /\ frames \in 1 .. MaxFrames
    /\ mixture_spec = [t \in 1 .. frames |-> t]
    /\ vocals_spec = [t \in 1 .. frames |-> -t]
    /\ start = -1
    /\ dpc = "call"
    /\ InferenceIdle /\ NormIdle /\ TrainIdle

Segmenting == segment /\ segment_length # 0

\* torch.randint(0, high, (1,)) with high > 0: a start in [0, high)
GetItemWindow ==
    /\ dpc = "call" /\ Segmenting
    /\ Len(mixture_spec) >= SegFrames
    /\ Len(mixture_spec) - SegFrames > 0
    /\ \E st \in 0 .. Len(mixture_spec) - SegFrames - 1 :
          /\ start' = st
          /\ mixture_spec' = Window(mixture_spec, st, SegFrames)
          /\ vocals_spec' = Window(vocals_spec, st, SegFrames)
    /\ dpc' = "returned"
    /\ UNCHANGED <<segment, segment_length, hop_length, frames>>
    /\ UNCHANGED <<inferenceVars, normVars, trainVars>>

\* torch.randint(0, 0, (1,)) raises RuntimeError (from >= to)
GetItemRandintRaises ==
    /\ dpc = "call" /\ Segmenting
    /\ Len(mixture_spec) >= SegFrames
    /\ Len(mixture_spec) - SegFrames <= 0
    /\ dpc' = "raised"
    /\ UNCHANGED <<segment, segment_length, hop_length, frames, mixture_spec,
                   vocals_spec, start>>
    /\ UNCHANGED <<inferenceVars, normVars, trainVars>>

GetItemPad ==
    /\ dpc = "call" /\ Segmenting
    /\ Len(mixture_spec) < SegFrames
    /\ mixture_spec' = Pad(mixture_spec, SegFrames - Len(mixture_spec))
    /\ vocals_spec' = Pad(vocals_spec, SegFrames - Len(vocals_spec))
    /\ dpc' = "returned"
    /\ UNCHANGED <<segment, segment_length, hop_length, frames, start>>
    /\ UNCHANGED <<inferenceVars, normVars, trainVars>>

GetItemWhole ==
    /\ dpc = "call" /\ ~Segmenting
    /\ dpc' = "returned"
    /\ UNCHANGED <<segment, segment_length, hop_length, frames, mixture_spec,
                   vocals_spec, start>>
    /\ UNCHANGED <<inferenceVars, normVars, trainVars>>

NextDataset == GetItemWindow \/ GetItemRandintRaises \/ GetItemPad \/ GetItemWhole
SpecDataset == InitDataset /\ [][NextDataset]_vars

(***************************************************************************)
(* main() and train().  A checkpoint file checkpoint_step_<n>.pt is named  *)
(* by n; --checkpoint_path is 0 when absent (None), the n of a file on     *)
(* disk, or MissingPath for a path with no file.  --input_wav is 0 when    *)
(* absent.  args.batches is len(train_dataloader).  The model and          *)
(* optimizer state dicts are opaque and left out of the checkpoint record. *)
(***************************************************************************)
MissingPath == -1

\* loss.item() of the j-th batch of the r-th invocation: the value is the
\* network's and opaque, so it is the symbol <<r, j>>; avg_loss is then a
\* linear form over the losses.
Loss(r, j) == Sym(r, j)

Checkpoint(s, avg, log) == [step |-> s, avg_loss |-> avg, loss_log |-> log]

\* torch.save(obj, f"checkpoint_step_{s}.pt"): creates or overwrites the file
Save(fs, s, ckpt) == [n \in DOMAIN fs \cup {s} |-> IF n = s THEN ckpt ELSE fs[n]]

\* if step % checkpoint_steps == 0   (tested after step += 1)
CheckpointDueBeforeIncrement(s) == (s - 1) % args.checkpoint_steps = 0
CheckpointDue(s) == s % args.checkpoint_steps = 0

\* avg_loss = (avg_loss * step + loss.item()) / (step + 1)
RunningAverage(avg, s, loss) == Scale(Plus(Scale(avg, R(s)), loss), RNorm(1, s + 1))

\* Command lines tried.  The training options (--epochs, --checkpoint_steps,
\* the dataset size) are varied with --train only; main() reads them in no
\* other branch.
ArgSets ==
    {a \in [train : BOOLEAN, infer : BOOLEAN, input_wav : {0, 1},
            checkpoint_path : {0, MissingPath} \cup DOMAIN files,
            epochs : 1 .. MaxEpochs, checkpoint_steps : 1 .. MaxCheckpointSteps,
            batches : 1 .. MaxBatches] :
        ~a.train => (a.epochs = 1 /\ a.checkpoint_steps = 1 /\ a.batches = 1)}

InitMain ==
    /\ TrainIdle
    /\ InferenceIdle /\ NormIdle /\ DataIdle

\* A new invocation of the program can start when none is running.
CanStart == mpc \in {"idle", "exited", "raised"} /\ runs < MaxRuns

\* --train: lines 325-336 and train() up to the loop (lines 153-171).
MainTrain ==
    /\ CanStart
    /\ \E a \in ArgSets :
          /\ a.train
          /\ args' = a
          /\ scheduler' = 0
          /\ IF a.checkpoint_path = 0
             THEN /\ step' = 0 /\ avg_loss' = Zero /\ loss_log' = <<>>
                  /\ mpc' = "training"
             ELSE IF a.checkpoint_path \in DOMAIN files
             THEN /\ step' = files[a.checkpoint_path].step
                  /\ avg_loss' = files[a.checkpoint_path].avg_loss
                  /\ loss_log' = files[a.checkpoint_path].loss_log
                  /\ mpc' = "training"
             ELSE /\ step' = 0 /\ avg_loss' = Zero /\ loss_log' = <<>>
                  /\ mpc' = "raised"          \* torch.load: no such file
          /\ base_log' = loss_log'
          /\ remaining' = a.epochs * a.batches
    /\ run_losses' = <<>> /\ saved' = 0
    /\ inference_called' = FALSE /\ message' = "none"
    /\ runs' = runs + 1
    /\ UNCHANGED <<files, loss_log_file>>
    /\ UNCHANGED <<inferenceVars, normVars, dataVars>>

ResetTrainState ==
    /\ step' = 0 /\ avg_loss' = Zero /\ loss_log' = <<>> /\ scheduler' = 0
    /\ remaining' = 0 /\ saved' = 0 /\ run_losses' = <<>> /\ base_log' = <<>>

\* --infer without --input_wav: lines 337-340.
MainInferNoInput ==
    /\ CanStart
    /\ \E a \in ArgSets :
          /\ ~a.train /\ a.infer /\ a.input_wav = 0
          /\ args' = a
    /\ message' = "Please specify an input WAV file for inference using --input_wav"
    /\ inference_called' = FALSE
    /\ mpc' = "exited"
    /\ ResetTrainState
    /\ runs' = runs + 1
    /\ UNCHANGED <<files, loss_log_file>>
    /\ UNCHANGED <<inferenceVars, normVars, dataVars>>

\* --infer with --input_wav: lines 341-344, inference() is called.
MainInfer ==
    /\ CanStart
    /\ \E a \in ArgSets :
          /\ ~a.train /\ a.infer /\ a.input_wav # 0
          /\ args' = a
    /\ message' = "none"
    /\ inference_called' = TRUE
    /\ mpc' = "inference"
    /\ ResetTrainState
    /\ runs' = runs + 1
    /\ UNCHANGED <<files, loss_log_file>>
    /\ UNCHANGED <<inferenceVars, normVars, dataVars>>

\* neither --train nor --infer: lines 345-346.
MainUsage ==
    /\ CanStart
    /\ \E a \in ArgSets :
          /\ ~a.train /\ ~a.infer
          /\ args' = a
    /\ message' = "Please specify either --train or --infer"
    /\ inference_called' = FALSE
    /\ mpc' = "exited"
    /\ ResetTrainState
    /\ runs' = runs + 1
    /\ UNCHANGED <<files, loss_log_file>>
    /\ UNCHANGED <<inferenceVars, normVars, dataVars>>

\* inference() line 217: torch.load(checkpoint_path) raises when the path is
\* None or names no file.
InferenceLoadRaises ==
    /\ mpc = "inference"
    /\ args.checkpoint_path \notin DOMAIN files
    /\ mpc' = "raised"
    /\ UNCHANGED <<args, step, avg_loss, loss_log, scheduler, remaining, saved,
                   run_losses, base_log, files, loss_log_file, inference_called,
                   message, runs>>
    /\ UNCHANGED <<inferenceVars, normVars, dataVars>>

\* inference() with a checkpoint on disk runs to its end (the chunk loop is
\* SpecInference).
InferenceRuns ==
    /\ mpc = "inference"
    /\ args.checkpoint_path \in DOMAIN files
    /\ mpc' = "exited"
    /\ UNCHANGED <<args, step, avg_loss, loss_log, scheduler, remaining, saved,
                   run_losses, base_log, files, loss_log_file, inference_called,
                   message, runs>>
    /\ UNCHANGED <<inferenceVars, normVars, dataVars>>

\* One batch of the training loop, lines 173-208.
TrainStep ==
    /\ mpc = "training"
    /\ remaining > 0
    /\ LET loss == Loss(runs, Len(run_losses) + 1)
       IN  /\ avg_loss' = RunningAverage(avg_loss, step, loss)
           /\ loss_log' = Append(loss_log, loss)
           /\ run_losses' = Append(run_losses, loss)
    /\ scheduler' = scheduler + 1
    /\ step' = step + 1
    /\ IF CheckpointDue(step')
       THEN /\ files' = Save(files, step', Checkpoint(step', avg_loss', loss_log'))
            /\ saved' = step'
       ELSE /\ files' = files
            /\ saved' = 0
    /\ remaining' = remaining - 1
    /\ UNCHANGED <<args, base_log, loss_log_file, inference_called, message, runs, mpc>>
    /\ UNCHANGED <<inferenceVars, normVars, dataVars>>

\* Lines 210-212: the loops are over; loss_log.pt is written.
TrainEnd ==
    /\ mpc = "training"
    /\ remaining = 0
    /\ loss_log_file' = loss_log
    /\ mpc' = "exited"
    /\ UNCHANGED <<args, step, avg_loss, loss_log, scheduler, remaining, saved,
                   run_losses, base_log, files, inference_called, message, runs>>
    /\ UNCHANGED <<inferenceVars, normVars, dataVars>>

NextMain ==
    \/ MainTrain \/ MainInferNoInput \/ MainInfer \/ MainUsage
    \/ InferenceLoadRaises \/ InferenceRuns
    \/ TrainStep \/ TrainEnd
SpecMain == InitMain /\ [][NextMain]_vars

(***************************************************************************)
(* Properties.                                                             *)
(***************************************************************************)
Cells == 0 .. total_length - 1
Offsets == 0 .. chunk_size - 1

\* C1: after the first loop iteration every sample k in [0, chunk_size) of the
\* output buffer equals sample k of the reconstruction of chunk 0, the first
\* overlap/2 samples included.
C1_FirstChunkVerbatim ==
    (ipc = "loop" /\ pbar = 1) =>
        \A k \in Offsets : instrumentals[k] = Sym(0, k)

\* The cross-fade of the chunk last written (number pbar - 1, start i > 0):
\* on the first overlap/2 cells the buffer is a * new[k] + b * prev[stride + k]
\* with a = k / (L - 1) (0 when L = 1), a + b = 1 and both weights in [0, 1],
\* prev being the reconstruction of the chunk before; the remaining cells of
\* the chunk hold the new chunk's samples.
CrossFaded ==
    LET L == cross_fade_length
        c == pbar - 1
    IN  /\ \A k \in 0 .. L - 1 :
              LET a == Coef(instrumentals[i + k], c, k)
                  b == Coef(instrumentals[i + k], c - 1, Stride + k)
              IN  /\ RAdd(a, b) = ROne
                  /\ RLe(RZero, a) /\ RLe(a, ROne)
                  /\ RLe(RZero, b) /\ RLe(b, ROne)
                  /\ a = (IF L = 1 THEN RZero ELSE RNorm(k, L - 1))
                  /\ instrumentals[i + k] =
                        Plus(Scale(Sym(c, k), a), Scale(Sym(c - 1, Stride + k), b))
        /\ \A k \in L .. chunk_size - 1 : instrumentals[i + k] = Sym(c, k)

\* C2 as claimed: for every chunk with start i > 0 the buffer after the chunk's
\* write is the convex combination of the new chunk and the preceding chunk's
\* reconstruction on the first overlap/2 samples, and the new chunk on the rest.
C2_CrossFadeAnyOverlap ==
    (ipc = "loop" /\ pbar >= 2) => CrossFaded

\* C2 amended: the same, for parameters with chunk_size - overlap >= overlap // 2
\* (the cross-fade region does not reach back into the previous chunk's own
\* cross-fade region).
C2_CrossFade ==
    (ipc = "loop" /\ pbar >= 2 /\ Stride >= cross_fade_length) => CrossFaded

C2_Witness ==
    /\ ipc = "loop" /\ pbar >= 2 /\ Stride >= cross_fade_length
    /\ cross_fade_length >= 3
    /\ \E k \in 1 .. cross_fade_length - 1 :
          /\ Coef(instrumentals[i + k], pbar - 1, k) \notin {RZero, ROne}
          /\ Coef(instrumentals[i + k], pbar - 2, Stride + k) \notin {RZero, ROne}

\* C3: the chunk count (total_length - overlap) // (chunk_size - overlap) equals
\* the number of chunks the loop processes.
C3_ChunkCount ==
    ipc \in {"clip", "saved"} => num_chunks = pbar

\* C4: every processed chunk lies inside [0, total_length); the buffer has the
\* input's length; every cell at or beyond the end of the last processed chunk
\* (which at the end of the loop is the last full chunk) still holds zero, also
\* in the saved output.
C4_TrailingUntouched ==
    ipc # "idle" =>
        LET end == IF pbar = 0 THEN 0 ELSE i + chunk_size
        IN  /\ DOMAIN instrumentals = Cells
            /\ pbar > 0 => (0 <= i /\ i + chunk_size <= total_length)
            /\ \A x \in Cells : x >= end => instrumentals[x] = Zero
            /\ ipc # "loop" => (i + Stride + chunk_size > total_length
                                /\ (pbar = 0 => total_length < chunk_size))
            /\ ipc = "saved" =>
                  /\ DOMAIN output = Cells
                  /\ \A x \in Cells : x >= end => output[x] = RZero

C4_Witness ==
    /\ ipc = "saved" /\ pbar >= 2
    /\ i + chunk_size < total_length
    /\ \E x \in Cells : output[x] # RZero

\* C5: denormalising the normalised magnitude with the same statistics gives
\* the magnitude back (network output 0, so nothing is subtracted in between).
C5_DenormalizeInverts ==
    (npc = "denormalized" /\ pred_mag = RZero) => inst_mag = chunk_mag

\* C6: in a run resumed from a checkpoint the scheduler's completed steps equal
\* the training step counter.
C6_SchedulerResumed ==
    (mpc = "training" /\ args.checkpoint_path # 0) => scheduler = step

\* C7: in --infer mode with the input WAV path or the checkpoint path missing,
\* main() prints a message and returns without calling inference() and without
\* raising.
C7_MissingArgument ==
    (args.infer /\ ~args.train /\ (args.input_wav = 0 \/ args.checkpoint_path = 0)) =>
        /\ ~inference_called
        /\ mpc # "raised"
        /\ mpc = "exited" => message # "none"

\* C8: every sample of the saved waveform is within [-1, 1], and a buffer value
\* already within [-1, 1] is saved unchanged.
C8_Clipped ==
    ipc = "saved" =>
        \A x \in Cells :
            LET v == Eval(instrumentals[x], amp)
            IN  /\ RLe(R(-1), output[x]) /\ RLe(output[x], R(1))
                /\ (RLe(R(-1), v) /\ RLe(v, R(1))) => output[x] = v

C8_Witness ==
    /\ ipc = "saved"
    /\ \E x \in Cells : ~RLe(Eval(instrumentals[x], amp), R(1)) /\ output[x] = R(1)
    /\ \E x \in Cells : ~RLe(R(-1), Eval(instrumentals[x], amp)) /\ output[x] = R(-1)
    /\ \E x \in Cells : output[x] \notin {RZero, R(1), R(-1)}

\* C9: with segmenting enabled __getitem__ returns, without error, mixture and
\* target of exactly F = segment_length // hop_length frames: the same window
\* [start, start + F) inside [0, T) of both when T > F, otherwise both padded
\* with trailing zero frames (T = F included).
C9_SegmentLength ==
    (dpc \in {"returned", "raised"} /\ Segmenting) =>
        /\ dpc = "returned"
        /\ Len(mixture_spec) = SegFrames /\ Len(vocals_spec) = SegFrames
        /\ IF frames > SegFrames
           THEN /\ 0 <= start /\ start + SegFrames <= frames
                /\ \A t \in 1 .. SegFrames :
                      mixture_spec[t] = start + t /\ vocals_spec[t] = -(start + t)
           ELSE \A t \in 1 .. SegFrames :
                      /\ mixture_spec[t] = (IF t <= frames THEN t ELSE 0)
                      /\ vocals_spec[t] = (IF t <= frames THEN -t ELSE 0)

\* C10: a checkpoint is written by a batch exactly when the incremented step
\* counter is a multiple of checkpoint_steps; every checkpoint on disk stores a
\* step equal to the length of its stored loss_log; the loss log holds one entry
\* per step executed so far, in order, and that is what loss_log.pt receives at
\* the end of training.
C10_Checkpoints ==
    /\ \A n \in DOMAIN files :
          files[n].step = n /\ Len(files[n].loss_log) = n
    /\ (mpc = "training" /\ run_losses # <<>>) =>
          /\ (saved # 0) <=> (step % args.checkpoint_steps = 0)
          /\ saved # 0 =>
                /\ saved = step /\ step \in DOMAIN files
                /\ files[step] = Checkpoint(step, avg_loss, loss_log)
    /\ (args.train /\ mpc \in {"training", "exited"}) =>
          /\ Len(loss_log) = step
          /\ loss_log = base_log \o run_losses
          /\ Len(run_losses) + remaining = args.epochs * args.batches
    /\ (args.train /\ mpc = "exited") => loss_log_file = loss_log

C10_Witness ==
    /\ args.train /\ mpc = "exited"
    /\ args.checkpoint_path \in DOMAIN files
    /\ Len(base_log) >= 1 /\ Len(run_losses) >= 1
    /\ loss_log_file = base_log \o run_losses
    /\ step \in DOMAIN files /\ files[step].loss_log = loss_log

====
